---- MODULE Spec2Model ----
(***************************************************************************)
(* Model of BOF's OPC UA block builder (bof/opcua/opcuaframe.py) and of    *)
(* the byte conversion primitives (bof/byte.py).                           *)
(*                                                                         *)
(* Bytes values are sequences of integers in 0..255.  The keyword          *)
(* arguments of the OpcuaBlock constructor are a record; a missing key is *)
(* a has_* flag set to FALSE.  Python's None is NoneT (for a block type)   *)
(* or a record with found = FALSE (for a block template).                  *)
(***************************************************************************)
EXTENDS Integers, Sequences, FiniteSets, TLC

\* ------------------------------------------------------------------------
\* Bounds
\* ------------------------------------------------------------------------
MaxBufLen == 3      \* longest raw buffer handed to a block
MaxInt == 300       \* integers 0..MaxInt are converted, and a few wider ones
MaxSize == 3        \* largest `size` argument
MaxArrayLen == 3    \* longest byte array resized
MaxBitBytes == 2    \* longest byte array turned into bits, an integer or an address
MaxBits == 8        \* longest bit list handed over, and largest number of bits asked for
MaxMain == 32       \* first numbers 0..MaxMain of an address, and a few wider ones
MaxMiddle == 16     \* second numbers 0..MaxMiddle of an address

\* ------------------------------------------------------------------------
\* Values
\* ------------------------------------------------------------------------
NoneT == "<None>"
NoType == "<no type>"

\* bytes found in raw buffers: 0 and the ASCII codes of 'A', 'E', 'H'
BufBytes == {0, 65, 69, 72}

RECURSIVE SeqsUpTo(_, _)
SeqsUpTo(S, n) ==
    IF n = 0 THEN {<<>>}
    ELSE LET shorter == SeqsUpTo(S, n - 1)
         IN shorter \cup {Append(s, x) : s \in {t \in shorter : Len(t) = n - 1}, x \in S}

Buffers == SeqsUpTo(BufBytes, MaxBufLen)

\* a str or a bytes value held by the defaults map
StrV(s) == [t |-> "str", s |-> s, b |-> <<>>]
BytesV(b) == [t |-> "bytes", s |-> "", b |-> b]

\* python slices array[:n] and array[n:]
Take(array, n) == SubSeq(array, 1, IF n < Len(array) THEN n ELSE Len(array))
Drop(array, n) == SubSeq(array, n + 1, Len(array))

\* ------------------------------------------------------------------------
\* bof.byte: conversion primitives
\* ------------------------------------------------------------------------
VARIABLES
    _BYTEORDER,   \* the module's default byte order
    bpc,          \* "ready", then the primitive that returned last
    bcall,        \* arguments of the conversion under way
    bout,         \* bytes returned by from_int or resize, or the exception
    bint,         \* integer returned by to_int, or the exception
    bres,         \* what another primitive, called first, returned
    bback,        \* what the primitive converting that result back returned
    bagain,       \* what the first call returned when it was made once more
    bset          \* the last call of set_byteorder and its exception

bytevars == <<_BYTEORDER, bpc, bcall, bout, bint, bres, bback, bagain, bset>>

\* an omitted byteorder argument (None)
NoOrder == ""

Reverse(array) == [i \in 1..Len(array) |-> array[Len(array) + 1 - i]]

RECURSIVE bit_length(_)
bit_length(n) == IF n = 0 THEN 0 ELSE 1 + bit_length(n \div 2)

\* get_size of an int
get_size(n) == (bit_length(n) + 7) \div 8

RECURSIVE to_bytes_little(_, _)
to_bytes_little(n, length) ==
    IF length = 0 THEN <<>>
    ELSE <<n % 256>> \o to_bytes_little(n \div 256, length - 1)

\* int.to_bytes(length, byteorder)
to_bytes(n, length, byteorder) ==
    IF byteorder = "big" THEN Reverse(to_bytes_little(n, length))
    ELSE to_bytes_little(n, length)

RECURSIVE from_bytes_little(_)
from_bytes_little(array) ==
    IF array = <<>> THEN 0
    ELSE Head(array) + 256 * from_bytes_little(Tail(array))

\* int.from_bytes(array, byteorder)
from_bytes(array, byteorder) ==
    IF byteorder = "big" THEN from_bytes_little(Reverse(array))
    ELSE from_bytes_little(array)

BytesResult(value) == [raised |-> "", value |-> value]
BytesError(err) == [raised |-> err, value |-> <<>>]
IntResult(value) == [raised |-> "", value |-> value]
IntError(err) == [raised |-> err, value |-> 0]

\* `byteorder if byteorder else _BYTEORDER`
order_or_default(byteorder) == IF byteorder # NoOrder THEN byteorder ELSE _BYTEORDER

Zeros(n) == [i \in 1..n |-> 0]

\* resize, were a big order truncation to keep the leading bytes
resize_keeps_leading(array, size, byteorder) ==
    LET order == order_or_default(byteorder)
    IN IF size < Len(array)
       THEN Take(array, size)
       ELSE IF size > Len(array)
       THEN LET padding == Zeros(size - Len(array))
            IN IF order = "big" THEN padding \o array ELSE array \o padding
       ELSE array

resize(array, size, byteorder) ==
    LET order == order_or_default(byteorder)
    IN IF size < Len(array)
       THEN IF order = "big" THEN Drop(array, Len(array) - size) ELSE Take(array, size)
       ELSE IF size > Len(array)
       THEN LET padding == Zeros(size - Len(array))
            IN IF order = "big" THEN padding \o array ELSE array \o padding
       ELSE array

\* from_int, were it to resize with the default order
from_int_default_padding(value, size, byteorder) ==
    LET order == order_or_default(byteorder)
    IN IF order \notin {"big", "little"} THEN BytesError("BOFProgrammingError")
       ELSE LET array == to_bytes(value, (bit_length(value) + 7) \div 8, order)
                size1 == IF Len(array) = 0 THEN (IF size = 0 THEN 1 ELSE size) ELSE size
            IN BytesResult(resize(array, IF size1 = 0 THEN Len(array) ELSE size1, NoOrder))

\* from_int, without its special case for a value of no bytes
from_int_plain(value, size, byteorder) ==
    LET order == order_or_default(byteorder)
    IN IF order \notin {"big", "little"} THEN BytesError("BOFProgrammingError")
       ELSE LET array == to_bytes(value, (bit_length(value) + 7) \div 8, order)
            IN BytesResult(resize(array, IF size = 0 THEN Len(array) ELSE size, order))

from_int(value, size, byteorder) ==
    LET order == order_or_default(byteorder)
    IN IF order \notin {"big", "little"} THEN BytesError("BOFProgrammingError")
       ELSE LET array == to_bytes(value, (bit_length(value) + 7) \div 8, order)
                size1 == IF Len(array) = 0 THEN (IF size = 0 THEN 1 ELSE size) ELSE size
            IN BytesResult(resize(array, IF size1 = 0 THEN Len(array) ELSE size1, order))

to_int(array, byteorder) ==
    LET order == order_or_default(byteorder)
    IN IF order \notin {"big", "little"} THEN IntError("BOFProgrammingError")
       ELSE IntResult(from_bytes(array, order))

\* what the other primitives return: a list or bytes or text (value), an
\* integer (number), None (none) or an exception (raised)
SeqResult(value) == [raised |-> "", none |-> FALSE, value |-> value, number |-> 0]
NumResult(number) == [raised |-> "", none |-> FALSE, value |-> <<>>, number |-> number]
NoneResult == [raised |-> "", none |-> TRUE, value |-> <<>>, number |-> 0]
ErrResult(err) == [raised |-> err, none |-> FALSE, value |-> <<>>, number |-> 0]

RECURSIVE bits_from_lowest(_, _)
\* the loop of int_to_bit_list: `size` bits of n, lowest first
bits_from_lowest(n, size) ==
    IF size = 0 THEN <<>>
    ELSE <<n % 2>> \o bits_from_lowest(n \div 2, size - 1)

int_to_bit_list(n, size, byteorder) ==
    LET order == order_or_default(byteorder)
        t == bits_from_lowest(n, size)
    IN IF order \notin {"big", "little"} THEN ErrResult("BOFProgrammingError")
       ELSE SeqResult(IF order = "big" THEN Reverse(t) ELSE t)

RECURSIVE shift_in(_, _)
\* the loop of bit_list_to_int: n <<= 1; n += b, over the list t from n
shift_in(n, t) ==
    IF t = <<>> THEN n ELSE shift_in(2 * n + Head(t), Tail(t))

bit_list_to_int(t, byteorder) ==
    LET order == order_or_default(byteorder)
    IN IF order \notin {"big", "little"} THEN ErrResult("BOFProgrammingError")
       ELSE NumResult(shift_in(0, IF order # "big" THEN Reverse(t) ELSE t))

\* to_bit_list hands neither `size` nor `byteorder` on to int_to_bit_list
to_bit_list(value, byteorder) ==
    LET order == order_or_default(byteorder)
    IN IF order \notin {"big", "little"} THEN ErrResult("BOFProgrammingError")
       ELSE int_to_bit_list(from_bytes(value, order), 8 * Len(value), NoOrder)

from_bit_list(bits, byteorder) ==
    LET order == order_or_default(byteorder)
    IN IF order \notin {"big", "little"} THEN ErrResult("BOFProgrammingError")
       ELSE IF Len(bits) % 8 # 0 THEN ErrResult("AssertionError")
       ELSE LET n == bit_list_to_int(bits, order)
            IN IF n.raised # "" THEN n
               ELSE SeqResult(to_bytes(n.number, Len(bits) \div 8, order))

\* to_int, as the other primitives return
to_int_result(array, byteorder) ==
    LET r == to_int(array, byteorder)
    IN IF r.raised # "" THEN ErrResult(r.raised) ELSE NumResult(r.value)

\* text is a sequence of characters
DigitChars == <<"0", "1", "2", "3", "4", "5", "6", "7", "8", "9">>

IsDigit(c) == \E d \in 1..10 : DigitChars[d] = c

DigitOf(c) == (CHOOSE d \in 1..10 : DigitChars[d] = c) - 1

RECURSIVE str_of_int(_)
\* "{0}".format(n): the decimal digits of n
str_of_int(n) ==
    IF n < 10 THEN <<DigitChars[n + 1]>>
    ELSE Append(str_of_int(n \div 10), DigitChars[(n % 10) + 1])

RECURSIVE int_of_text(_, _)
\* int(text, base), continued from n
int_of_text(n, text) ==
    IF text = <<>> THEN n
    ELSE int_of_text(10 * n + DigitOf(Head(text)), Tail(text))

RECURSIVE digit_run(_, _)
\* how many characters a greedy \d{1,most} takes at the front of text
digit_run(text, most) ==
    IF most = 0 \/ text = <<>> \/ ~IsDigit(Head(text)) THEN 0
    ELSE 1 + digit_run(Tail(text), most - 1)

\* match("(\d{1,2})S(\d{1,2})S(\d{1,3})", address) with the separator S:
\* the pattern is matched at the front of address, what follows is ignored
match_address(address, sep) ==
    LET n1 == digit_run(address, 2)
        rest1 == Drop(address, n1 + 1)
        n2 == digit_run(rest1, 2)
        rest2 == Drop(rest1, n2 + 1)
        n3 == digit_run(rest2, 3)
    IN IF /\ n1 >= 1 /\ Len(address) > n1 /\ address[n1 + 1] = sep
          /\ n2 >= 1 /\ Len(rest1) > n2 /\ rest1[n2 + 1] = sep
          /\ n3 >= 1
       THEN [matched |-> TRUE,
             x |-> int_of_text(0, Take(address, n1)),
             y |-> int_of_text(0, Take(rest1, n2)),
             z |-> int_of_text(0, Take(rest2, n3))]
       ELSE [matched |-> FALSE, x |-> 0, y |-> 0, z |-> 0]

\* string_format.format(x, y, z)
knx_format(x, y, z, sep) ==
    str_of_int(x) \o <<sep>> \o str_of_int(y) \o <<sep>> \o str_of_int(z)

to_knx(value, group) ==
    IF Len(value) = 0 THEN NoneResult
    ELSE LET first_chunk_size == IF group THEN 5 ELSE 4
             bitlist == to_bit_list(Take(value, 1), NoOrder)
             z == to_int(Drop(value, 1), NoOrder)
         IN IF bitlist.raised # "" THEN bitlist
            ELSE IF z.raised # "" THEN ErrResult(z.raised)
            ELSE SeqResult(knx_format(
                     shift_in(0, Take(bitlist.value, first_chunk_size)),
                     shift_in(0, Drop(bitlist.value, first_chunk_size)),
                     z.value,
                     IF group THEN "/" ELSE "."))

\* from_knx, were a group address cut like an individual one
from_knx_four_bits(address) ==
    LET individual == match_address(address, ".")
        addr == IF individual.matched THEN individual ELSE match_address(address, "/")
        first_chunk_size == 4
        x == int_to_bit_list(addr.x, 8, NoOrder)
        y == int_to_bit_list(addr.y, 8, NoOrder)
        n == bit_list_to_int(Drop(x.value, 8 - first_chunk_size)
                                \o Drop(y.value, first_chunk_size), NoOrder)
        b1 == from_int(n.number, 0, NoOrder)
        b2 == from_int(addr.z, 0, NoOrder)
    IN IF ~addr.matched THEN NoneResult
       ELSE IF x.raised # "" THEN x
       ELSE IF b1.raised # "" THEN ErrResult(b1.raised)
       ELSE SeqResult(b1.value \o b2.value)

from_knx(address) ==
    LET individual == match_address(address, ".")
        addr == IF individual.matched THEN individual ELSE match_address(address, "/")
        first_chunk_size == IF individual.matched THEN 4 ELSE 5
        x == int_to_bit_list(addr.x, 8, NoOrder)
        y == int_to_bit_list(addr.y, 8, NoOrder)
        n == bit_list_to_int(Drop(x.value, 8 - first_chunk_size)
                                \o Drop(y.value, first_chunk_size), NoOrder)
        b1 == from_int(n.number, 0, NoOrder)
        b2 == from_int(addr.z, 0, NoOrder)
    IN IF ~addr.matched THEN NoneResult
       ELSE IF x.raised # "" THEN x
       ELSE IF b1.raised # "" THEN ErrResult(b1.raised)
       ELSE SeqResult(b1.value \o b2.value)

\* ------------------------------------------------------------------------
\* Specification document (opcua.json): block templates and code tables
\* ------------------------------------------------------------------------
FieldItem(name, size) == [name |-> name, type |-> "field", size |-> size]
BlockItem(name, type) == [name |-> name, type |-> type, size |-> 0]

blocks ==
    [ PAIR     |-> << FieldItem("a", 1), FieldItem("b", 1) >>,
      HEADER   |-> << FieldItem("message_type", 1) >>,
      MSG      |-> << BlockItem("header", "HEADER"),
                      BlockItem("body", "depends:message_type") >>,
      HEL_BODY |-> << FieldItem("version", 1), FieldItem("buffer_size", 1) >>,
      ACK_BODY |-> << FieldItem("version", 1), BlockItem("endpoint", "STRING") >>,
      STRING   |-> << FieldItem("length", 1), FieldItem("data", 0) >>,
      WRAP     |-> << BlockItem("first", "PAIR"), FieldItem("tail", 1) >>,
      WIDE     |-> << FieldItem("word", 2), FieldItem("flag", 1) >>,
      ANON     |-> << FieldItem("a", 1), BlockItem("anon", NoType),
                      FieldItem("b", 1) >>,
      BROKEN   |-> << FieldItem("a", 1), BlockItem("missing", "UNKNOWN") >>,
      DEEP     |-> << BlockItem("inner", "BROKEN") >>,
      EMPTY    |-> << >> ]

codes ==
    [ message_type |-> [ H |-> "HEL_BODY", A |-> "ACK_BODY", E |-> "ERR_BODY" ] ]

\* str.encode(key) for the keys of the code tables
str_encode == [ H |-> <<72>>, A |-> <<65>>, E |-> <<69>> ]

\* block_type.startswith("depends:") and block_type.split(":")[1]
depends_of == [ t \in {"depends:message_type"} |-> "message_type" ]
startswith_depends(block_type) == block_type \in DOMAIN depends_of

\* ------------------------------------------------------------------------
\* OpcuaSpec
\* ------------------------------------------------------------------------
get_block_template(block_name) ==
    IF block_name # NoneT /\ block_name \in DOMAIN blocks
    THEN [found |-> TRUE, items |-> blocks[block_name]]
    ELSE [found |-> FALSE, items |-> <<>>]

get_code_name(code_name, identifier) ==
    IF code_name \notin DOMAIN codes THEN NoneT
    ELSE LET table == codes[code_name]
             bytes_match == {key \in DOMAIN table :
                                identifier.t = "bytes" /\ identifier.b = str_encode[key]}
             str_match == {key \in DOMAIN table :
                                identifier.t = "str" /\ identifier.s = key}
         IN IF bytes_match # {} THEN table[CHOOSE key \in bytes_match : TRUE]
            ELSE IF str_match # {} THEN table[CHOOSE key \in str_match : TRUE]
            ELSE NoneT

\* ------------------------------------------------------------------------
\* Objects: fields and blocks
\* ------------------------------------------------------------------------
\* the OpcuaField constructor, called with an item template and a value
OpcuaField(item_template, value) ==
    [kind |-> "field", name |-> item_template.name, size |-> item_template.size,
     value |-> IF item_template.size = 0 THEN value ELSE Take(value, item_template.size),
     content |-> <<>>]

BlockObj(name, content) ==
    [kind |-> "block", name |-> name, size |-> 0, value |-> <<>>, content |-> content]

RECURSIVE ItemLen(_)
RECURSIVE ContentLen(_)
\* len(item): a field's value length, a block's sum of children lengths
ItemLen(item) ==
    IF item.kind = "field" THEN Len(item.value) ELSE ContentLen(item.content)
ContentLen(content) ==
    IF content = <<>> THEN 0
    ELSE ItemLen(Head(content)) + ContentLen(Tail(content))

RECURSIVE ItemBytes(_)
RECURSIVE ContentBytes(_)
\* bytes(item): the children's values concatenated in child order
ItemBytes(item) ==
    IF item.kind = "field" THEN item.value ELSE ContentBytes(item.content)
ContentBytes(content) ==
    IF content = <<>> THEN <<>>
    ELSE ItemBytes(Head(content)) \o ContentBytes(Tail(content))

RECURSIVE ItemFields(_)
RECURSIVE ContentFields(_)
\* the fields of a subtree, in declared order
ItemFields(item) ==
    IF item.kind = "field" THEN <<item>> ELSE ContentFields(item.content)
ContentFields(content) ==
    IF content = <<>> THEN <<>>
    ELSE ItemFields(Head(content)) \o ContentFields(Tail(content))

\* ------------------------------------------------------------------------
\* OpcuaBlock construction
\* ------------------------------------------------------------------------
VARIABLES
    pc,       \* "call", "building", "returned" or "raised"
    call,     \* keyword arguments of the outermost OpcuaBlock construction
    stack,    \* one frame per OpcuaBlock constructor in progress, outermost first
    result,   \* what the outermost constructor returned to its caller
    error     \* the exception that reached the caller

NoResult == [kind |-> "none", name |-> "", size |-> 0, value |-> <<>>, content |-> <<>>]
NoItem == [name |-> "", type |-> NoType, size |-> 0]
NoDefaults == [n \in {} |-> StrV("")]

\* block type named by the keyword arguments, NoneT when there is none
block_type_of(kwargs) ==
    IF kwargs.has_type THEN kwargs.type
    ELSE IF kwargs.has_item /\ kwargs.item.type # NoType THEN kwargs.item.type
    ELSE NoneT

\* BOFBlock._get_depends_block: the ancestors' already built children are
\* searched, nearest ancestor first, for a field called `name`
RECURSIVE get_depends_block(_, _)
get_depends_block(name, ancestors) ==
    IF ancestors = <<>> THEN NoneT
    ELSE LET fields == ContentFields(Head(ancestors))
             hits == {i \in 1..Len(fields) : fields[i].name = name}
             first == CHOOSE i \in hits : \A j \in hits : i <= j
         IN IF hits # {} THEN get_code_name(name, BytesV(fields[first].value))
            ELSE get_depends_block(name, Tail(ancestors))

Raised(err) == [status |-> "error", error |-> err, name |-> "", items |-> <<>>]

\* resolve_dependency, were the parent blocks looked into before the defaults
resolve_dependency_parents_first(block_type, defaults, ancestors) ==
    LET dependency == depends_of[block_type]
        in_parents == get_depends_block(dependency, ancestors)
    IN IF in_parents # NoneT
       THEN [status |-> "ok", error |-> "", name |-> in_parents, items |-> <<>>]
       ELSE IF dependency \in DOMAIN defaults
       THEN [status |-> "ok", error |-> "",
             name |-> get_code_name(dependency, defaults[dependency]), items |-> <<>>]
       ELSE Raised("BOFProgrammingError")

\* the concrete type of a "depends:<field>" block, or the error raised
resolve_dependency(block_type, defaults, ancestors) ==
    LET dependency == depends_of[block_type]
    IN IF dependency \in DOMAIN defaults
       THEN LET resolved == get_code_name(dependency, defaults[dependency])
            IN IF dependency = NoneT
               THEN Raised("BOFProgrammingError")
               ELSE [status |-> "ok", error |-> "", name |-> resolved, items |-> <<>>]
       ELSE LET resolved == get_depends_block(dependency, ancestors)
            IN IF resolved = NoneT
               THEN Raised("BOFProgrammingError")
               ELSE [status |-> "ok", error |-> "", name |-> resolved, items |-> <<>>]

\* fetch_template, were a block type without a template to give an empty block
fetch_template_lenient(block_type) ==
    LET block_template == get_block_template(block_type)
    IN [status |-> "ok", error |-> "", name |-> block_type,
        items |-> block_template.items]

\* the fetch of the block template once the block type is known
fetch_template(block_type) ==
    LET block_template == get_block_template(block_type)
    IN IF ~block_template.found \/ block_template.items = <<>>
       THEN Raised("BOFProgrammingError")
       ELSE [status |-> "ok", error |-> "", name |-> block_type,
             items |-> block_template.items]

\* OpcuaBlock.__init__ up to its loop: "empty" (no type: an empty block is
\* returned), "error" (an exception leaves the constructor) or "ok" (the
\* block is named and its template is about to be walked)
OpcuaBlock_init(kwargs, ancestors) ==
    LET block_type == block_type_of(kwargs)
    IN IF block_type = NoneT
       THEN [status |-> "empty", error |-> "", name |-> "", items |-> <<>>]
       ELSE IF startswith_depends(block_type)
       THEN LET dep == resolve_dependency(block_type, kwargs.defaults, ancestors)
            IN IF dep.status = "error" THEN dep ELSE fetch_template(dep.name)
       ELSE fetch_template(block_type)

\* OpcuaBlock.factory for a "field" item: the field, or the exception of the
\* read of the undefined name `template`
factory_field(item_template, defaults, value) ==
    IF item_template.name \in DOMAIN defaults
    THEN [status |-> "error", error |-> "NameError", item |-> NoResult]
    ELSE IF value # <<>>
    THEN [status |-> "field", error |-> "",
          item |-> OpcuaField(item_template, Take(value, item_template.size))]
    ELSE [status |-> "field", error |-> "", item |-> OpcuaField(item_template, <<>>)]

is_field(item_template) == item_template.type # NoType /\ item_template.type = "field"

\* factory, were it to hand back an empty block when the nested constructor fails
factory_swallows(item_template, defaults, value, ancestors) ==
    IF is_field(item_template)
    THEN LET f == factory_field(item_template, defaults, value)
         IN [status |-> f.status, error |-> f.error, item |-> f.item,
             name |-> "", items |-> <<>>]
    ELSE LET b == OpcuaBlock_init([has_type |-> FALSE, type |-> "",
                                   has_item |-> TRUE, item |-> item_template,
                                   defaults |-> defaults, value |-> value],
                                  ancestors)
         IN [status |-> IF b.status = "error" THEN "empty" ELSE b.status,
             error |-> "", item |-> NoResult, name |-> b.name, items |-> b.items]

\* OpcuaBlock.factory: a field, or the outcome of the nested constructor
factory(item_template, defaults, value, ancestors) ==
    IF is_field(item_template)
    THEN LET f == factory_field(item_template, defaults, value)
         IN [status |-> f.status, error |-> f.error, item |-> f.item,
             name |-> "", items |-> <<>>]
    ELSE LET b == OpcuaBlock_init([has_type |-> FALSE, type |-> "",
                                   has_item |-> TRUE, item |-> item_template,
                                   defaults |-> defaults, value |-> value],
                                  ancestors)
         IN [status |-> b.status, error |-> b.error, item |-> NoResult,
             name |-> b.name, items |-> b.items]

\* cut_value, were it to drop one byte too many
cut_value_skips(value, n) ==
    IF value # <<>> /\ n < Len(value) THEN Drop(value, n + 1) ELSE value

\* the remaining buffer after a child of length n was appended
cut_value(value, n) ==
    IF value # <<>> /\ n < Len(value) THEN Drop(value, n) ELSE value

\* the loop stops once a child used up the whole remaining buffer
loop_breaks(value, n) == value # <<>> /\ n >= Len(value)

NewFrame(type, name, items, value) ==
    [type |-> type, name |-> name, items |-> items, idx |-> 1,
     kwvalue |-> value, value |-> value,
     content |-> <<>>, handed |-> <<>>, broke |-> FALSE]

\* append_and_cut, were the buffer left as it is after a child
append_and_cut_rereads(frame, new_item, given) ==
    [frame EXCEPT !.content = Append(@, new_item),
                  !.handed = Append(@, given),
                  !.idx = @ + 1,
                  !.broke = loop_breaks(frame.value, ItemLen(new_item))]

\* self.append(new_item) and the cut of the buffer; `given` is the buffer
\* the child was built from
append_and_cut(frame, new_item, given) ==
    [frame EXCEPT !.content = Append(@, new_item),
                  !.handed = Append(@, given),
                  !.idx = @ + 1,
                  !.broke = loop_breaks(frame.value, ItemLen(new_item)),
                  !.value = cut_value(@, ItemLen(new_item))]

LoopDone(frame) == frame.broke \/ frame.idx > Len(frame.items)

Top == stack[Len(stack)]

\* contents of the blocks a new child of the innermost frame can look into
AncestorsOf(stk) ==
    [i \in 1..Len(stk) |-> stk[Len(stk) + 1 - i].content]
        \o (IF call.has_parent THEN <<call.parent.content>> ELSE <<>>)

\* ------------------------------------------------------------------------
\* Calls of the constructor made by a user of the library
\* ------------------------------------------------------------------------
RootTypes == DOMAIN blocks \cup {"UNKNOWN", "depends:message_type"}

DefaultsSet ==
    { NoDefaults,
      [message_type |-> StrV("H")],
      [message_type |-> StrV("A")],
      [message_type |-> StrV("E")],
      [message_type |-> StrV("Z")],
      [message_type |-> BytesV(<<72>>)],
      [a |-> BytesV(<<65>>)] }

\* a block assembled by hand, as in the usage example of the class: an
\* empty block to which a header holding `message_type` was appended
ManualParent(message_type) ==
    BlockObj("", << BlockObj("HEADER",
                      << OpcuaField(FieldItem("message_type", 1), message_type) >>) >>)

Parents == { BlockObj("", <<>>), ManualParent(<<72>>), ManualParent(<<65>>),
             ManualParent(<<0>>) }

Kwargs(has_type, type, has_item, item, defaults, value, has_parent, parent) ==
    [has_type |-> has_type, type |-> type, has_item |-> has_item, item |-> item,
     defaults |-> defaults, value |-> value,
     has_parent |-> has_parent, parent |-> parent]

Calls ==
    \* OpcuaBlock(type=..., defaults=..., value=...)
    { Kwargs(TRUE, t, FALSE, NoItem, d, v, FALSE, NoResult) :
        t \in RootTypes, d \in DefaultsSet, v \in Buffers }
    \* OpcuaBlock(item_template_block=..., defaults=..., value=...)
    \cup { Kwargs(FALSE, "", TRUE, BlockItem("body", t), d, v, FALSE, NoResult) :
        t \in {"HEL_BODY", "depends:message_type", NoType},
        d \in DefaultsSet, v \in Buffers }
    \* both a type and an item template
    \cup { Kwargs(TRUE, "PAIR", TRUE, BlockItem("body", "WIDE"), d, v, FALSE, NoResult) :
        d \in DefaultsSet, v \in Buffers }
    \* neither
    \cup { Kwargs(FALSE, "", FALSE, NoItem, d, v, FALSE, NoResult) :
        d \in DefaultsSet, v \in Buffers }
    \* OpcuaBlock(parent=block, value=..., name="body", type="depends:message_type")
    \cup { Kwargs(TRUE, "depends:message_type", FALSE, NoItem, d, v, TRUE, p) :
        d \in DefaultsSet, v \in Buffers, p \in Parents }

\* ------------------------------------------------------------------------
\* Actions
\* ------------------------------------------------------------------------
Raise(err) ==
    /\ pc' = "raised"
    /\ error' = err
    /\ stack' = <<>>
    /\ result' = NoResult

\* the caller invokes the outermost constructor
Call ==
    /\ pc = "call"
    /\ LET r == OpcuaBlock_init(call, AncestorsOf(<<>>))
       IN IF r.status = "error" THEN Raise(r.error)
          ELSE IF r.status = "empty"
          THEN /\ pc' = "returned"
               /\ result' = BlockObj(r.name, <<>>)
               /\ UNCHANGED <<stack, error>>
          ELSE /\ pc' = "building"
               /\ stack' = << NewFrame(block_type_of(call), r.name, r.items, call.value) >>
               /\ UNCHANGED <<result, error>>
    /\ UNCHANGED <<call, bytevars>>

\* one turn of the loop over the block template, for a "field" item
BuildField ==
    /\ pc = "building"
    /\ ~LoopDone(Top)
    /\ is_field(Top.items[Top.idx])
    /\ LET r == factory(Top.items[Top.idx], call.defaults, Top.value, AncestorsOf(stack))
       IN IF r.status = "error" THEN Raise(r.error)
          ELSE /\ stack' = [stack EXCEPT ![Len(stack)] = append_and_cut(@, r.item, Top.value)]
               /\ UNCHANGED <<pc, result, error>>
    /\ UNCHANGED <<call, bytevars>>

\* one turn of the loop for a nested block: its constructor is entered
BuildBlock ==
    /\ pc = "building"
    /\ ~LoopDone(Top)
    /\ ~is_field(Top.items[Top.idx])
    /\ LET r == factory(Top.items[Top.idx], call.defaults, Top.value, AncestorsOf(stack))
       IN IF r.status = "error" THEN Raise(r.error)
          ELSE IF r.status = "empty"
          THEN /\ stack' = [stack EXCEPT ![Len(stack)] =
                                append_and_cut(@, BlockObj(r.name, <<>>), Top.value)]
               /\ UNCHANGED <<pc, result, error>>
          ELSE /\ stack' = Append(stack, NewFrame(Top.items[Top.idx].type, r.name, r.items,
                                               Top.value))
               /\ UNCHANGED <<pc, result, error>>
    /\ UNCHANGED <<call, bytevars>>

\* the loop of the innermost constructor is over: the block goes to its
\* parent's loop, or to the caller
Return ==
    /\ pc = "building"
    /\ LoopDone(Top)
    /\ LET block == BlockObj(Top.name, Top.content)
           outer == SubSeq(stack, 1, Len(stack) - 1)
       IN IF outer = <<>>
          THEN /\ pc' = "returned"
               /\ result' = block
               /\ stack' = <<>>
               /\ UNCHANGED error
          ELSE /\ stack' = [outer EXCEPT ![Len(outer)] =
                                append_and_cut(@, block, Top.kwvalue)]
               /\ UNCHANGED <<pc, result, error>>
    /\ UNCHANGED <<call, bytevars>>

blockvars == <<pc, call, stack, result, error>>

vars == <<blockvars, bytevars>>

\* no conversion is under way
ByteIdle ==
    /\ _BYTEORDER = "big"
    /\ bpc = "idle"
    /\ bcall = [fn |-> "", value |-> 0, size |-> 0, byteorder |-> NoOrder, array |-> <<>>,
                address |-> <<>>, group |-> FALSE]
    /\ bout = BytesResult(<<>>)
    /\ bint = IntResult(0)
    /\ bres = NoneResult
    /\ bback = NoneResult
    /\ bagain = NoneResult
    /\ bset = [called |-> FALSE, arg |-> NoOrder, raised |-> "", before |-> "big"]

Init ==
    /\ pc = "call"
    /\ call \in Calls
    /\ stack = <<>>
    /\ result = NoResult
    /\ error = ""
    /\ ByteIdle

Next == Call \/ BuildField \/ BuildBlock \/ Return

Spec == Init /\ [][Next]_vars

\* ------------------------------------------------------------------------
\* Properties of the block construction
\* ------------------------------------------------------------------------
RECURSIVE FieldsOnly(_)
\* a template made of field items and of nested blocks of field items
FieldsOnly(type) ==
    /\ type \in DOMAIN blocks
    /\ blocks[type] # <<>>
    /\ \A i \in 1..Len(blocks[type]) :
          \/ is_field(blocks[type][i])
          \/ FieldsOnly(blocks[type][i].type)

RECURSIVE DeclaredSize(_)
\* sum of the declared sizes of the fields of such a template
DeclaredSize(type) ==
    LET items == blocks[type]
        SizeOf[i \in 0..Len(items)] ==
            IF i = 0 THEN 0
            ELSE SizeOf[i - 1] + (IF is_field(items[i]) THEN items[i].size
                                  ELSE DeclaredSize(items[i].type))
    IN SizeOf[Len(items)]

ParseCall ==
    /\ FieldsOnly(block_type_of(call))
    /\ DOMAIN call.defaults = {}
    /\ Len(call.value) = DeclaredSize(block_type_of(call))

\* C1: a block built from a template of fields and nested blocks of fields,
\* with no defaults and a buffer as long as the declared sizes, holds the
\* buffer: its children's values, concatenated in child order, are the buffer.
C1_RoundTrip ==
    (pc = "returned" /\ ParseCall) => ItemBytes(result) = call.value

C1_Witness ==
    /\ pc = "returned"
    /\ ParseCall
    /\ block_type_of(call) = "WRAP"
    /\ call.value = <<72, 65, 69>>
    /\ Len(result.content) = 2
    /\ result.content[1].kind = "block"
    /\ ItemBytes(result) = <<72, 65, 69>>

\* C2: when the buffer is shorter than the declared sizes of the template,
\* the returned block still has one child per item template.
C2_OneChildPerItem ==
    ( /\ pc = "returned"
      /\ FieldsOnly(block_type_of(call))
      /\ DOMAIN call.defaults = {}
      /\ Len(call.value) < DeclaredSize(block_type_of(call)) )
    => Len(result.content) = Len(blocks[block_type_of(call)])

\* the value of a defaults entry, as bytes
AsBytes(v) ==
    IF v.t = "bytes" THEN v.b
    ELSE IF v.s \in DOMAIN str_encode THEN str_encode[v.s] ELSE <<>>

NextIsField == pc = "building" /\ ~LoopDone(Top) /\ is_field(Top.items[Top.idx])

\* C3: the factory always returns a field for a "field" item, valued by the
\* same-named defaults entry if there is one, else by the first `size` bytes
\* of a non-empty buffer, else empty.
C3_FieldValuePriority ==
    [][ NextIsField =>
          LET item == Top.items[Top.idx]
              expected == IF item.name \in DOMAIN call.defaults
                          THEN AsBytes(call.defaults[item.name])
                          ELSE IF Top.value # <<>> THEN Take(Top.value, item.size)
                          ELSE <<>>
          IN /\ pc' = "building"
             /\ Len(stack') = Len(stack)
             /\ LET built == stack'[Len(stack)].content
                IN /\ Len(built) = Top.idx
                   /\ built[Top.idx].kind = "field"
                   /\ built[Top.idx].name = item.name
                   /\ built[Top.idx].value = expected ]_vars

\* what a child built from an item template looks like
ChildOf(child, item) ==
    IF is_field(item)
    THEN child.kind = "field" /\ child.name = item.name /\ child.size = item.size
    ELSE /\ child.kind = "block"
         /\ IF item.type = NoType THEN child.name = ""
            ELSE IF startswith_depends(item.type)
            THEN \E table \in DOMAIN codes : \E key \in DOMAIN codes[table] :
                    child.name = codes[table][key]
            ELSE child.name = item.type

\* C4: in every block under construction the i-th child comes from the i-th
\* item template, and it was built from the buffer of the block cut at the
\* sum of the lengths of the children before it.
C4_OrderedConsumption ==
    \A d \in 1..Len(stack) :
        LET f == stack[d]
        IN /\ Len(f.content) = f.idx - 1
           /\ Len(f.handed) = Len(f.content)
           /\ f.idx - 1 <= Len(f.items)
           /\ \A i \in 1..Len(f.content) :
                 /\ ChildOf(f.content[i], f.items[i])
                 /\ f.handed[i] = Drop(f.kwvalue, ContentLen(SubSeq(f.content, 1, i - 1)))

C4_Witness ==
    \E d \in 1..Len(stack) :
        LET f == stack[d]
        IN /\ f.name = "WRAP"
           /\ Len(f.kwvalue) = 3
           /\ Len(f.content) = 2
           /\ f.content[1].kind = "block"
           /\ ItemLen(f.content[1]) = 2
           /\ f.handed[1] = f.kwvalue
           /\ f.handed[2] = <<f.kwvalue[3]>>

DependsOnDefaults(type) ==
    /\ startswith_depends(type)
    /\ depends_of[type] \in DOMAIN call.defaults

FromDefaults(type) == get_code_name(depends_of[type], call.defaults[depends_of[type]])

\* C5: a block of type "depends:<field>" built with <field> among the
\* defaults is named get_code_name(<field>, defaults[<field>]), whatever
\* the ancestors hold.
C5_DefaultsResolution ==
    /\ \A d \in 1..Len(stack) :
          DependsOnDefaults(stack[d].type) => stack[d].name = FromDefaults(stack[d].type)
    /\ (pc = "returned" /\ DependsOnDefaults(block_type_of(call)))
          => result.name = FromDefaults(block_type_of(call))

C5_Witness ==
    /\ pc = "returned"
    /\ call.has_parent
    /\ call.parent = ManualParent(<<65>>)
    /\ DependsOnDefaults(block_type_of(call))
    /\ call.defaults["message_type"] = StrV("H")
    /\ result.name = "HEL_BODY"
    /\ Len(result.content) = 2

\* keyword arguments of the nested constructor the innermost loop enters next
NestedKwargs ==
    [has_type |-> FALSE, type |-> "", has_item |-> TRUE, item |-> Top.items[Top.idx],
     defaults |-> call.defaults, value |-> Top.value]

NextIsBlock == pc = "building" /\ ~LoopDone(Top) /\ ~is_field(Top.items[Top.idx])

\* the code table lookup of a "depends:<field>" type
Lookup(type, ancestors) ==
    IF depends_of[type] \in DOMAIN call.defaults
    THEN get_code_name(depends_of[type], call.defaults[depends_of[type]])
    ELSE get_depends_block(depends_of[type], ancestors)

\* the constructor entered next is for a dependency no lookup resolves
Unresolved ==
    \/ /\ pc = "call"
       /\ startswith_depends(block_type_of(call))
       /\ Lookup(block_type_of(call), AncestorsOf(<<>>)) = NoneT
    \/ /\ NextIsBlock
       /\ startswith_depends(Top.items[Top.idx].type)
       /\ Lookup(Top.items[Top.idx].type, AncestorsOf(stack)) = NoneT

\* C6: the construction of a "depends:<field>" block whose lookup gives no
\* type raises BOFProgrammingError and leaves no block with children.
C6_UnresolvedRaises ==
    [][ Unresolved => /\ pc' = "raised"
                      /\ error' = "BOFProgrammingError"
                      /\ stack' = <<>>
                      /\ result' = NoResult ]_vars

C6_Witness ==
    /\ pc = "raised"
    /\ error = "BOFProgrammingError"
    /\ ~call.has_parent
    /\ DependsOnDefaults(block_type_of(call))
    /\ call.defaults["message_type"] = StrV("Z")
    /\ result = NoResult

\* the step taken next raises an exception
StepFails ==
    \/ pc = "call" /\ OpcuaBlock_init(call, AncestorsOf(<<>>)).status = "error"
    \/ NextIsField /\
          factory_field(Top.items[Top.idx], call.defaults, Top.value).status = "error"
    \/ NextIsBlock /\ OpcuaBlock_init(NestedKwargs, AncestorsOf(stack)).status = "error"

RECURSIVE WellBuilt(_)
\* every block of the tree stems from a template of the document
WellBuilt(item) ==
    \/ item.kind = "field"
    \/ /\ item.kind = "block"
       /\ \/ item.name = "" /\ item.content = <<>>
          \/ /\ item.name \in DOMAIN blocks
             /\ blocks[item.name] # <<>>
             /\ Len(item.content) <= Len(blocks[item.name])
             /\ \A i \in 1..Len(item.content) :
                   /\ ChildOf(item.content[i], blocks[item.name][i])
                   /\ WellBuilt(item.content[i])

\* C7: a failure at any depth reaches the caller and no block is returned;
\* a block is returned only by a step that did not fail, and all its blocks
\* were built from their templates.
C7_AllOrNothing ==
    [][ /\ StepFails => (pc' = "raised" /\ result' = NoResult /\ stack' = <<>>)
        /\ pc' = "raised" => StepFails
        /\ pc' = "returned" => (~StepFails /\ WellBuilt(result'))
        /\ result' # NoResult => pc' = "returned" ]_vars

C7_Witness ==
    /\ pc = "raised"
    /\ error = "BOFProgrammingError"
    /\ block_type_of(call) = "DEEP"
    /\ call.value = <<72, 65>>
    /\ result = NoResult

\* ------------------------------------------------------------------------
\* Calls of the conversion primitives
\* ------------------------------------------------------------------------
OrderArgs == {NoOrder, "big", "little", "middle"}

IntInputs == 0..MaxInt \cup {65535, 65536, 65980, 16777215, 16777216}

\* bytes found in resized arrays
ArrayBytes == {0, 1, 210, 255}

Arrays == SeqsUpTo(ArrayBytes, MaxArrayLen)

\* arrays short enough for their integer to be computed
ShortArrays == SeqsUpTo(ArrayBytes, MaxBitBytes)

BitLists == SeqsUpTo({0, 1}, MaxBits)

BitInts == {0, 1, 2, 128, 210, 255, 256}

\* the numbers written in station addresses
MainInputs == 0..MaxMain \cup {63, 99}

MiddleInputs == 0..MaxMiddle

SubInputs == {0, 1, 128, 255, 256, 999}

\* texts that are no station address, or more than one
OtherTexts ==
    { <<>>, <<"1", ".", "1">>, <<"1", ".", "1", "/", "1">>,
      <<"1", "2", "3", ".", "1", ".", "1">>, <<"a", ".", "1", ".", "1">>,
      <<"0", "1", ".", "1", ".", "1">>, <<"1", "/", "1", "/", "1", "2", "3", "4">> }

ByteCall(fn, value, size, byteorder, array, address, group) ==
    [fn |-> fn, value |-> value, size |-> size, byteorder |-> byteorder,
     array |-> array, address |-> address, group |-> group]

ByteCalls ==
    { ByteCall("from_int", n, size, o, <<>>, <<>>, FALSE) :
        n \in IntInputs, size \in 0..MaxSize, o \in OrderArgs }
    \cup
    { ByteCall("resize", 0, size, o, a, <<>>, FALSE) :
        a \in Arrays, size \in 0..MaxSize, o \in OrderArgs }
    \cup
    { ByteCall("to_int", 0, 0, o, a, <<>>, FALSE) : a \in ShortArrays, o \in OrderArgs }
    \cup
    { ByteCall("int_to_bit_list", n, size, o, <<>>, <<>>, FALSE) :
        n \in BitInts, size \in 0..MaxBits, o \in OrderArgs }
    \cup
    { ByteCall(fn, 0, 0, o, t, <<>>, FALSE) :
        fn \in {"bit_list_to_int", "from_bit_list"}, t \in BitLists, o \in OrderArgs }
    \cup
    { ByteCall("to_bit_list", 0, 0, o, a, <<>>, FALSE) : a \in ShortArrays, o \in OrderArgs }
    \cup
    { ByteCall("from_knx", 0, 0, NoOrder, <<>>, knx_format(x, y, z, sep), sep = "/") :
        x \in MainInputs, y \in MiddleInputs, z \in SubInputs, sep \in {".", "/"} }
    \cup
    { ByteCall("from_knx", 0, 0, NoOrder, <<>>, text, group) :
        text \in OtherTexts, group \in BOOLEAN }
    \cup
    { ByteCall("to_knx", 0, 0, NoOrder, a, <<>>, group) : a \in ShortArrays, group \in BOOLEAN }

\* no block is under construction
BlockIdle ==
    /\ pc = "idle"
    /\ call = Kwargs(FALSE, "", FALSE, NoItem, NoDefaults, <<>>, FALSE, NoResult)
    /\ stack = <<>>
    /\ result = NoResult
    /\ error = ""

\* the primitives that accept a byte order
OrderPrimitives ==
    {"resize", "from_int", "to_int", "int_to_bit_list", "bit_list_to_int",
     "to_bit_list", "from_bit_list"}

\* a primitive that accepts an order has returned and nothing was done since
Returned ==
    \/ bpc \in {"from_int", "resize"}
    \/ bpc = "called" /\ bcall.fn \in OrderPrimitives

\* set_byteorder, were the argument not validated
set_byteorder_unchecked(byteorder) ==
    /\ bpc = "ready" \/ Returned
    /\ _BYTEORDER' = byteorder
    /\ bset' = [called |-> TRUE, arg |-> byteorder, raised |-> "", before |-> _BYTEORDER]
    /\ bpc' = IF bpc = "ready" THEN "ready" ELSE "between"
    /\ UNCHANGED <<bcall, bout, bint, bres, bback, bagain, blockvars>>

\* the default is set before a conversion starts, or between a call of a
\* primitive and the same call made once more
set_byteorder(byteorder) ==
    /\ bpc = "ready" \/ Returned
    /\ IF byteorder \notin {"big", "little"}
       THEN /\ UNCHANGED _BYTEORDER
            /\ bset' = [called |-> TRUE, arg |-> byteorder,
                        raised |-> "BOFProgrammingError", before |-> _BYTEORDER]
       ELSE /\ _BYTEORDER' = byteorder
            /\ bset' = [called |-> TRUE, arg |-> byteorder, raised |-> "",
                        before |-> _BYTEORDER]
    /\ bpc' = IF bpc = "ready" THEN "ready" ELSE "between"
    /\ UNCHANGED <<bcall, bout, bint, bres, bback, bagain, blockvars>>

SetByteorder == \E byteorder \in {"big", "little", "middle"} : set_byteorder(byteorder)

CallFromInt ==
    /\ bpc = "ready"
    /\ bcall.fn = "from_int"
    /\ bout' = from_int(bcall.value, bcall.size, bcall.byteorder)
    /\ bpc' = "from_int"
    /\ UNCHANGED <<_BYTEORDER, bcall, bint, bres, bback, bagain, bset, blockvars>>

\* the bytes from_int returned are converted back, with the same argument
CallToInt ==
    /\ bpc = "from_int"
    /\ bout.raised = ""
    /\ bint' = to_int(bout.value, bcall.byteorder)
    /\ bpc' = "to_int"
    /\ UNCHANGED <<_BYTEORDER, bcall, bout, bres, bback, bagain, bset, blockvars>>

CallResize ==
    /\ bpc = "ready"
    /\ bcall.fn = "resize"
    /\ bout' = BytesResult(resize(bcall.array, bcall.size, bcall.byteorder))
    /\ bpc' = "resize"
    /\ UNCHANGED <<_BYTEORDER, bcall, bint, bres, bback, bagain, bset, blockvars>>

\* a primitive called first, with the arguments of the call, returns `r`
Returns(fn, r) ==
    /\ bpc = "ready"
    /\ bcall.fn = fn
    /\ bres' = r
    /\ bpc' = "called"
    /\ UNCHANGED <<_BYTEORDER, bcall, bout, bint, bback, bagain, bset, blockvars>>

CallToIntOfArray == Returns("to_int", to_int_result(bcall.array, bcall.byteorder))

CallIntToBitList ==
    Returns("int_to_bit_list", int_to_bit_list(bcall.value, bcall.size, bcall.byteorder))

CallBitListToInt == Returns("bit_list_to_int", bit_list_to_int(bcall.array, bcall.byteorder))

CallToBitList == Returns("to_bit_list", to_bit_list(bcall.array, bcall.byteorder))

CallFromBitList == Returns("from_bit_list", from_bit_list(bcall.array, bcall.byteorder))

CallFromKnx == Returns("from_knx", from_knx(bcall.address))

CallToKnx == Returns("to_knx", to_knx(bcall.array, bcall.group))

\* what a primitive returned is converted back and `r` is returned
ConvertsBack(fn, r) ==
    /\ bpc = "called"
    /\ bcall.fn = fn
    /\ bres.raised = ""
    /\ ~bres.none
    /\ bback' = r
    /\ bpc' = "back"
    /\ UNCHANGED <<_BYTEORDER, bcall, bout, bint, bres, bagain, bset, blockvars>>

\* the bits to_bit_list returned are converted back, with the same argument
BackFromBitList == ConvertsBack("to_bit_list", from_bit_list(bres.value, bcall.byteorder))

\* the bytes from_knx returned are decoded as the kind of address they encode
BackToKnx == ConvertsBack("from_knx", to_knx(bres.value, bcall.group))

\* from_int and resize, as the other primitives return
OfBytes(r) == IF r.raised # "" THEN ErrResult(r.raised) ELSE SeqResult(r.value)

\* the primitive of the call, called with the arguments of the call
Invoke(c) ==
    CASE c.fn = "from_int" -> OfBytes(from_int(c.value, c.size, c.byteorder))
      [] c.fn = "resize" -> SeqResult(resize(c.array, c.size, c.byteorder))
      [] c.fn = "to_int" -> to_int_result(c.array, c.byteorder)
      [] c.fn = "int_to_bit_list" -> int_to_bit_list(c.value, c.size, c.byteorder)
      [] c.fn = "bit_list_to_int" -> bit_list_to_int(c.array, c.byteorder)
      [] c.fn = "to_bit_list" -> to_bit_list(c.array, c.byteorder)
      [] c.fn = "from_bit_list" -> from_bit_list(c.array, c.byteorder)

\* the same call is made once more, after set_byteorder was called
CallAgain ==
    /\ bpc = "between"
    /\ bagain' = Invoke(bcall)
    /\ bpc' = "again"
    /\ UNCHANGED <<_BYTEORDER, bcall, bout, bint, bres, bback, bset, blockvars>>

\* what the first call returned
FirstResult == IF bcall.fn \in {"from_int", "resize"} THEN OfBytes(bout) ELSE bres

ByteInit ==
    /\ _BYTEORDER = "big"
    /\ bpc = "ready"
    /\ bcall \in ByteCalls
    /\ bout = BytesResult(<<>>)
    /\ bint = IntResult(0)
    /\ bres = NoneResult
    /\ bback = NoneResult
    /\ bagain = NoneResult
    /\ bset = [called |-> FALSE, arg |-> NoOrder, raised |-> "", before |-> "big"]
    /\ BlockIdle

ByteNext ==
    \/ SetByteorder
    \/ CallFromInt
    \/ CallToInt
    \/ CallResize
    \/ CallToIntOfArray
    \/ CallIntToBitList
    \/ CallBitListToInt
    \/ CallToBitList
    \/ CallFromBitList
    \/ CallFromKnx
    \/ CallToKnx
    \/ BackFromBitList
    \/ BackToKnx
    \/ CallAgain

ByteSpec == ByteInit /\ [][ByteNext]_vars

\* ------------------------------------------------------------------------
\* Properties of the conversion primitives
\* ------------------------------------------------------------------------
ExplicitOrder == bcall.byteorder \in {"big", "little"}

\* C8: an integer converted by from_int with a size that holds it and an
\* explicit order, then converted back by to_int with that order, is itself.
C8_IntRoundTrip ==
    (bpc = "to_int" /\ ExplicitOrder /\ bcall.size >= get_size(bcall.value))
        => (bint.raised = "" /\ bint.value = bcall.value)

C8_Witness ==
    /\ bpc = "to_int"
    /\ bcall.value = 300
    /\ bcall.size = 3
    /\ bcall.byteorder = "little"
    /\ _BYTEORDER = "big"
    /\ bout.value = <<44, 1, 0>>
    /\ bint.value = 300

Max(a, b) == IF a >= b THEN a ELSE b

\* C9: from_int with a valid order returns bytes, never none: `size` of
\* them if size > 0, else as many as the value needs and at least one.
C9_FromIntLength ==
    (bpc = "from_int" /\ bcall.byteorder # "middle")
        => /\ bout.raised = ""
           /\ Len(bout.value) >= 1
           /\ bcall.size = 0 => Len(bout.value) = Max(1, get_size(bcall.value))
           /\ bcall.size > 0 => Len(bout.value) = bcall.size

C9_Witness ==
    /\ bpc = "from_int"
    /\ bcall.value = 0
    /\ bcall.size = 0
    /\ bout = BytesResult(<<0>>)

\* C10: resize returns `size` bytes: under big order the trailing bytes of
\* the array behind leading zeros, under little order its leading bytes
\* before trailing zeros; an array of `size` bytes comes back unchanged.
C10_Resize ==
    bpc = "resize" =>
        LET array == bcall.array
            size == bcall.size
            shift == size - Len(array)
        IN /\ Len(bout.value) = size
           /\ bcall.byteorder = "big" =>
                 \A i \in 1..size :
                    bout.value[i] = IF i - shift >= 1 THEN array[i - shift] ELSE 0
           /\ bcall.byteorder = "little" =>
                 \A i \in 1..size :
                    bout.value[i] = IF i <= Len(array) THEN array[i] ELSE 0
           /\ Len(array) = size => bout.value = array

C10_Witness ==
    /\ bpc = "resize"
    /\ bcall.array = <<1, 210>>
    /\ bcall.size = 1
    /\ bcall.byteorder = "big"
    /\ _BYTEORDER = "little"
    /\ bout.value = <<210>>

\* C11: bytes turned into bits by to_bit_list with an explicit order, and the
\* bits turned back by from_bit_list with that order, are the same bytes,
\* whatever the default order is.
C11_BitListRoundTrip ==
    (bpc = "back" /\ bcall.fn = "to_bit_list" /\ ExplicitOrder)
        => bback = SeqResult(bcall.array)

\* C12: a primitive called with an explicit order returns the same, whatever
\* the default order was set to between the two calls.
C12_ExplicitOrderOverrides ==
    (bpc = "again" /\ bcall.fn \in OrderPrimitives /\ ExplicitOrder)
        => bagain = FirstResult

\* C13: a primitive handed an order other than "big" and "little" raises
\* BOFProgrammingError and returns nothing.
C13_InvalidOrderRaises ==
    (Returned /\ bcall.byteorder \notin {NoOrder, "big", "little"})
        => FirstResult.raised = "BOFProgrammingError"

\* the default order was "big" and has not been set otherwise
DefaultBig == _BYTEORDER = "big" /\ (bset.called => bset.before = "big")

\* the address of the call is the text X.Y.Z or X/Y/Z of numbers below the limits
AddressWithin(sep, xlimit, ylimit, zlimit) ==
    LET addr == match_address(bcall.address, sep)
    IN /\ addr.matched
       /\ bcall.address = knx_format(addr.x, addr.y, addr.z, sep)
       /\ addr.x < xlimit
       /\ addr.y < ylimit
       /\ addr.z < zlimit

\* to_knx gave back the address from_knx was handed
KnxRoundTrip == bpc = "back" /\ bback = SeqResult(bcall.address)

\* to_knx decodes no bytes as None
EmptyIsNone ==
    (bpc = "called" /\ bcall.fn = "to_knx" /\ bcall.array = <<>>) => bres = NoneResult

C15_KnxTwoBytes ==
    (bpc = "called" /\ bcall.fn = "from_knx" /\ ~bres.none) =>
        LET individual == match_address(bcall.address, ".")
            addr == IF individual.matched THEN individual
                    ELSE match_address(bcall.address, "/")
            ybits == IF individual.matched THEN 16 ELSE 8
        IN /\ bres.raised = ""
           /\ Len(bres.value) = 2
           /\ bres.value[1] = addr.x * ybits + addr.y
           /\ bres.value[2] = addr.z

\* C16: the default order is "big" or "little"; set_byteorder called with
\* one of them makes it the default, called with anything else it raises
\* BOFProgrammingError and leaves the default as it was; a primitive called
\* without an order does not raise BOFProgrammingError.
C16_DefaultOrderValid ==
    /\ _BYTEORDER \in {"big", "little"}
    /\ bset.called =>
          IF bset.arg \in {"big", "little"}
          THEN bset.raised = "" /\ _BYTEORDER = bset.arg
          ELSE bset.raised = "BOFProgrammingError" /\ _BYTEORDER = bset.before
    /\ (Returned /\ bcall.byteorder = NoOrder)
          => FirstResult.raised # "BOFProgrammingError"

C16_Witness ==
    /\ bpc = "from_int"
    /\ bset = [called |-> TRUE, arg |-> "middle", raised |-> "BOFProgrammingError",
               before |-> "little"]
    /\ _BYTEORDER = "little"
    /\ bcall.byteorder = NoOrder
    /\ bcall.value = 300
    /\ bout = BytesResult(<<44, 1>>)

====
